---- MODULE Spec2Model ----
(***************************************************************************)
(* A model of ipie's estimator layer: EstimatorHandler and EstimatorHelper *)
(* (src/ipie/estimators/handler.py), the launcher (src/bin/run_ipie.py),   *)
(* and, from the specification, the blocked driver loop and the chunked    *)
(* local-energy evaluation that the two tests exercise.                    *)
(*                                                                         *)
(* Python resolves names when a statement runs.  The model keeps the set   *)
(* of names the module binds (ModuleGlobals) and the set of attributes     *)
(* __init__ assigns (InitAttrs); a reference to any other name raises      *)
(* NameError or AttributeError at the statement that evaluates it, and an  *)
(* exception nobody catches ends the worker's process.                     *)
(***************************************************************************)
EXTENDS Integers, Sequences, FiniteSets, TLC

\* ------------------------------------------------------------------ bounds
NumWorkers == 2      \* MPI processes of the run (comm.size)
MaxFileIndex == 1    \* existing output files carry an index in 0..MaxFileIndex+1
MaxCalls == 2        \* compute_estimators calls a worker's driver may make
NBlocks == 2         \* qmc.blocks of the driver run
NSteps == 2          \* qmc.steps: propagation steps per block
StabiliseFreq == 2   \* qmc.stabilise_freq
NChol == 3           \* Cholesky vectors (the rank dimension)
NWalkers == 2        \* walkers of the batch
MaxMembers == 2      \* workers of a group sharing the Cholesky vectors
MaxPassLen == 2      \* Cholesky vectors one pass holds under the default budget

\* ------------------------------------------------------- program constants
PopControlFreq == 1  \* pop_control_freq
EnergyEvalFreq == 1  \* energy_eval_freq

Ranks == 0 .. (NumWorkers - 1)

\* ------------------------------------------------- strings and file names
\* A file name is kept as the list of its "."-separated parts, which is what
\* filename.split(".") yields.  A part is a decimal numeral or other text.
Txt(s) == [k |-> "txt", n |-> 0, s |-> s]
Num(i) == [k |-> "num", n |-> i, s |-> ""]

\* "%s" % index
FormatIndex(i) == Num(i)

\* int(part): the value of a decimal numeral, ValueError for any other text
ParseInt(part) == IF part.k = "num" THEN [ok |-> TRUE, v |-> part.n]
                                    ELSE [ok |-> FALSE, v |-> 0]

\* self.basename + ".%s.h5" % self.index
FileName(basename, index) == basename \o << FormatIndex(index), Txt("h5") >>

\* filename.split(".")[1]   (Python indexes from 0)
SplitSecond(filename) == filename[2]

\* Python's None, where a file name is expected
NoneName == << >>

\* ----------------------------------------------------------------- errors
NoError == [type |-> "none", msg |-> "", arg |-> ""]
NameError(name) == [type |-> "NameError", msg |-> "name is not defined", arg |-> name]
AttributeError(attr) == [type |-> "AttributeError", msg |-> "object has no attribute", arg |-> attr]
ValueError == [type |-> "ValueError", msg |-> "invalid literal for int()", arg |-> ""]
OSError == [type |-> "OSError", msg |-> "unable to create file", arg |-> ""]
UnknownObservable(obs) == [type |-> "RuntimeError", msg |-> "unknown observable: ", arg |-> obs]

\* --------------------------------------------------------- name resolution
\* The names handler.py binds at module level: its imports, the registry and
\* the two top-level definitions.
ModuleGlobals ==
    { "print_function", "copy", "os", "time", "warnings", "h5py", "numpy", "scipy",
      "EnergyEstimator", "H5EstimatorHelper", "get_input_value",
      "_predefined_estimators", "EstimatorHandler", "EstimatorHelper" }

\* The keys of the registry of supported estimators.
PredefinedEstimatorKeys == { "energy" }

\* The attributes __init__ assigns on a worker of the given rank.
InitAttrs(rank) ==
    IF rank = 0 THEN { "index", "filename", "basename", "estimators" }
                ELSE { "filename", "estimators" }

\* A reference is a global name or an attribute of self.
Global(name) == [scope |-> "global", name |-> name]
Self(name) == [scope |-> "self", name |-> name]

Resolves(ref, attrs) ==
    IF ref.scope = "global" THEN ref.name \in ModuleGlobals ELSE ref.name \in attrs

RaisedBy(ref) ==
    IF ref.scope = "global" THEN NameError(ref.name) ELSE AttributeError(ref.name)

\* Evaluate references left to right: the error of the first that does not
\* resolve, NoError when all do.
RECURSIVE EvalRefs(_, _)
EvalRefs(refs, attrs) ==
    IF refs = << >> THEN NoError
    ELSE IF ~Resolves(Head(refs), attrs) THEN RaisedBy(Head(refs))
    ELSE EvalRefs(Tail(refs), attrs)

\* ---------------------------------------------------------------- options
\* The options mapping handed to EstimatorHandler; every worker gets the same.
\* A key that is absent is read through options.get(key, default).
BaseOptions == << Txt("options") >>           \* "options"
BaseDottedNum == << Txt("run"), Num(1) >>     \* "run.1"
BaseDottedTxt == << Txt("my"), Txt("run") >>  \* "my.run"
ExplicitName == << Txt("out"), Txt("h5") >>   \* "out.h5"

OptionsSet ==
    [ hasIndex : BOOLEAN,                      \* "index" given (as 1)
      hasFilename : BOOLEAN,                   \* "filename" given (as "out.h5")
      basename : { "absent", "run.1", "my.run" },
      overwrite : { "absent", "True", "False" },
      observables : { "absent", "none", "foo", "energy", "energy,foo" } ]

OptIndex(o) == IF o.hasIndex THEN 1 ELSE 0
OptFilename(o) == IF o.hasFilename THEN ExplicitName ELSE NoneName
OptBasename(o) ==
    CASE o.basename = "absent" -> BaseOptions
      [] o.basename = "run.1" -> BaseDottedNum
      [] OTHER -> BaseDottedTxt
OptOverwrite(o) == IF o.overwrite = "absent" THEN TRUE ELSE o.overwrite = "True"
OptObservables(o) ==
    CASE o.observables = "absent" -> << "energy" >>
      [] o.observables = "none" -> << >>
      [] o.observables = "foo" -> << "foo" >>
      [] o.observables = "energy" -> << "energy" >>
      [] OTHER -> << "energy", "foo" >>

\* The files that may exist before the run starts.
CandidateFiles(o) ==
    IF o.hasFilename THEN { ExplicitName }
    ELSE { FileName(OptBasename(o), i) : i \in 0 .. (MaxFileIndex + 1) }

VARIABLES
    options,     \* the options mapping of the run
    files,       \* names of the files that exist
    files0,      \* names of the files that existed before the run
    truncated,   \* files that existed and were opened with mode "w"
    pc,          \* per worker: "start", "alive", "raised", "hung"
    err,         \* per worker: the exception that ended it, or NoError
    attrs,       \* per worker: the attributes set on its handler
    index,       \* per worker: self.index
    filename,    \* per worker: self.filename
    estimators,  \* per worker: the keys of self.estimators, in order
    hasOutput,   \* per worker: self.output was assigned
    opened,      \* per worker: files it created (opened with mode "w")
    records,     \* the records appended to the output, each with its writer
    setups,      \* per worker: whether setup_output was called
    calls,       \* per worker: compute_estimators calls that ended
    reached,     \* per worker: calls that got to the Reduce statement
    helper,      \* what EstimatorHelper(...) gave its caller: "unset", "None", "raised"
    helperErr,   \* the exception that ended the helper's caller, or NoError
    pushed,      \* the names push was called with
    layout       \* the (name, offset) pairs the helper holds

hvars == << options, files, files0, truncated, pc, err, attrs, index, filename,
            estimators, hasOutput, opened, records, setups, calls, reached,
            helper, helperErr, pushed, layout >>

VARIABLES
    dstate,      \* per worker: the driver's state
    block,       \* per worker: blocks completed
    step,        \* per worker: propagation steps done in the current block
    props,       \* per worker: propagation steps done in the run
    written,     \* records the coordinator wrote
    finalised    \* per worker: finalise was called

dvars == << dstate, block, step, props, written, finalised >>

VARIABLES
    chol,        \* the Cholesky vectors' entries, one per vector
    green,       \* the walkers' Green's function entries, one per walker
    nmembers,    \* workers in the group that shares the vectors
    passLen,     \* vectors per pass that the default max_mem allows
    evaluated,   \* which of the three evaluations have run
    eEinsum,     \* per walker: energy from the full contraction
    eChunked,    \* per walker: energy from the chunked evaluation
    eLowMem      \* per walker: chunked energy with max_mem=1e-6

evars == << chol, green, nmembers, passLen, evaluated, eEinsum, eChunked, eLowMem >>

vars == << hvars, dvars, evars >>

\* The variables of a part that a specification does not run.
HandlerParked ==
    /\ options = [ hasIndex |-> FALSE, hasFilename |-> FALSE, basename |-> "absent",
                   overwrite |-> "absent", observables |-> "none" ]
    /\ files = { } /\ files0 = { } /\ truncated = { }
    /\ pc = [w \in Ranks |-> "start"]
    /\ err = [w \in Ranks |-> NoError]
    /\ attrs = [w \in Ranks |-> { }]
    /\ index = [w \in Ranks |-> 0]
    /\ filename = [w \in Ranks |-> NoneName]
    /\ estimators = [w \in Ranks |-> << >>]
    /\ hasOutput = [w \in Ranks |-> FALSE]
    /\ opened = [w \in Ranks |-> { }]
    /\ records = << >>
    /\ setups = [w \in Ranks |-> FALSE]
    /\ calls = [w \in Ranks |-> 0]
    /\ reached = [w \in Ranks |-> 0]
    /\ helper = "unset"
    /\ helperErr = NoError
    /\ pushed = { }
    /\ layout = << >>

DriverParked ==
    /\ dstate = [w \in Ranks |-> "Idle"]
    /\ block = [w \in Ranks |-> 0]
    /\ step = [w \in Ranks |-> 0]
    /\ props = [w \in Ranks |-> 0]
    /\ written = 0
    /\ finalised = [w \in Ranks |-> FALSE]

Walkers == 1 .. NWalkers

EnergyParked ==
    /\ chol = [l \in 1 .. NChol |-> 0]
    /\ green = [i \in Walkers |-> 0]
    /\ nmembers = 1
    /\ passLen = 1
    /\ evaluated = { }
    /\ eEinsum = [i \in Walkers |-> 0]
    /\ eChunked = [i \in Walkers |-> 0]
    /\ eLowMem = [i \in Walkers |-> 0]

\* ----------------------------------------------- EstimatorHandler.__init__
\* A search that settles on the first name whether or not it exists.
SearchLoopKeepsFirst(basename, idx, fname, overwrite, existing) ==
    [kind |-> "ok", index |-> idx, filename |-> fname]

\* while os.path.isfile(self.filename) and not overwrite: ...
RECURSIVE SearchLoop(_, _, _, _, _)
SearchLoop(basename, idx, fname, overwrite, existing) ==
    IF ~(fname \in existing /\ ~overwrite)
    THEN [kind |-> "ok", index |-> idx, filename |-> fname]
    ELSE LET parsed == ParseInt(SplitSecond(fname)) IN
         IF ~parsed.ok
         THEN [kind |-> "ValueError", index |-> idx, filename |-> fname]
         ELSE LET idx2 == parsed.v + 1
                  fname2 == FileName(basename, idx2)
              IN  IF fname2 = fname
                  \* the loop is back in the state it left: it never ends
                  THEN [kind |-> "hang", index |-> idx2, filename |-> fname2]
                  ELSE SearchLoop(basename, idx2, fname2, overwrite, existing)

\* The file part of __init__ run by every rank.
CreatesFileOnAnyRank(rank) == TRUE

\* Who runs the file part of __init__ (if comm.rank == 0)
CreatesFile(rank) == rank = 0

\* The file name the coordinator settles on.
ChooseName(o, existing) ==
    IF OptFilename(o) # NoneName
    THEN [kind |-> "ok", index |-> OptIndex(o), filename |-> OptFilename(o)]
    ELSE SearchLoop(OptBasename(o), OptIndex(o),
                    FileName(OptBasename(o), OptIndex(o)), OptOverwrite(o), existing)

\* for obs, obs_dict in observables.items(): ... ; the keys built and the error
RECURSIVE ObservablesLoop(_, _)
ObservablesLoop(obs, built) ==
    IF obs = << >> THEN [err |-> NoError, estimators |-> built]
    ELSE IF "predefined_estimators" \notin ModuleGlobals
    THEN [err |-> NameError("predefined_estimators"), estimators |-> built]
    ELSE IF Head(obs) \notin PredefinedEstimatorKeys
    THEN [err |-> UnknownObservable(Head(obs)), estimators |-> built]
    ELSE ObservablesLoop(Tail(obs), Append(built, Head(obs)))

Construct(w) ==
    /\ pc[w] = "start"
    /\ \E ioOk \in BOOLEAN :
        LET chosen == ChooseName(options, files)
            loop == ObservablesLoop(OptObservables(options), << >>)
        IN
        IF CreatesFile(w)
        THEN
            /\ index' = [index EXCEPT ![w] = chosen.index]
            /\ filename' = [filename EXCEPT ![w] = chosen.filename]
            /\ IF chosen.kind = "hang"
               THEN /\ pc' = [pc EXCEPT ![w] = "hung"]
                    /\ UNCHANGED << err, files, truncated, opened, estimators, attrs >>
               ELSE IF chosen.kind = "ValueError"
               THEN /\ pc' = [pc EXCEPT ![w] = "raised"]
                    /\ err' = [err EXCEPT ![w] = ValueError]
                    /\ UNCHANGED << files, truncated, opened, estimators, attrs >>
               ELSE IF ~ioOk
               THEN \* h5py.File(self.filename, "w") fails
                    /\ pc' = [pc EXCEPT ![w] = "raised"]
                    /\ err' = [err EXCEPT ![w] = OSError]
                    /\ UNCHANGED << files, truncated, opened, estimators, attrs >>
               ELSE /\ files' = files \cup { chosen.filename }
                    /\ truncated' = truncated \cup ({ chosen.filename } \cap files)
                    /\ opened' = [opened EXCEPT ![w] = @ \cup { chosen.filename }]
                    /\ estimators' = [estimators EXCEPT ![w] = loop.estimators]
                    /\ attrs' = [attrs EXCEPT ![w] = InitAttrs(w)]
                    /\ err' = [err EXCEPT ![w] = loop.err]
                    /\ pc' = [pc EXCEPT ![w] =
                                 IF loop.err = NoError THEN "alive" ELSE "raised"]
        ELSE
            /\ ioOk
            /\ filename' = [filename EXCEPT ![w] = NoneName]
            /\ estimators' = [estimators EXCEPT ![w] = loop.estimators]
            /\ attrs' = [attrs EXCEPT ![w] = InitAttrs(w)]
            /\ err' = [err EXCEPT ![w] = loop.err]
            /\ pc' = [pc EXCEPT ![w] = IF loop.err = NoError THEN "alive" ELSE "raised"]
            /\ UNCHANGED << index, files, truncated, opened >>
    /\ UNCHANGED << dvars, evars, options, files0, hasOutput, records, setups, calls, reached,
                    helper, helperErr, pushed, layout >>

\* -------------------------------- EstimatorHandler.increment_file_number
\*   self.index = self.index + 1
\*   self.filename = self.basename + ".%s.h5" % self.index
\* The method only renames: it opens no file.
IncrementRefs == << Self("index"), Self("basename") >>

IncrementFileNumber(w) ==
    /\ pc[w] = "alive"
    /\ index[w] <= MaxFileIndex
    /\ LET e == EvalRefs(IncrementRefs, attrs[w])
       IN  /\ err' = [err EXCEPT ![w] = e]
           /\ pc' = [pc EXCEPT ![w] = IF e = NoError THEN "alive" ELSE "raised"]
           /\ index' = [index EXCEPT ![w] = IF e = NoError THEN @ + 1 ELSE @]
           /\ filename' = [filename EXCEPT ![w] =
                              IF e = NoError
                              THEN FileName(OptBasename(options), index[w] + 1) ELSE @]
    /\ UNCHANGED << dvars, evars, options, files, files0, truncated, attrs, estimators,
                    hasOutput, opened, records, setups, calls, reached, helper,
                    helperErr, pushed, layout >>

\* ------------------------------------------- EstimatorHandler.setup_output
\* Who assigns self.output (if comm.rank == 0)
SetsUpOutput(rank) == rank = 0

\* H5EstimatorHelper(self.filename, chunk_size=self.buffer_size,
\*                   shape=(self.estimators.total_size,))
\* self.estimators is a dict, which has no attribute total_size.
SetupOutputRefs ==
    << Global("H5EstimatorHelper"), Self("filename"), Self("buffer_size"),
       Self("estimators"), Self("estimators.total_size") >>

SetupOutput(w) ==
    /\ pc[w] = "alive"
    /\ ~setups[w]
    /\ setups' = [setups EXCEPT ![w] = TRUE]
    /\ LET e == IF SetsUpOutput(w) /\ estimators[w] # << >>
                THEN EvalRefs(SetupOutputRefs, attrs[w]) ELSE NoError
       IN  /\ err' = [err EXCEPT ![w] = e]
           /\ pc' = [pc EXCEPT ![w] = IF e = NoError THEN "alive" ELSE "raised"]
           /\ hasOutput' = [hasOutput EXCEPT ![w] =
                               @ \/ (SetsUpOutput(w) /\ estimators[w] # << >> /\ e = NoError)]
    /\ UNCHANGED << dvars, evars, options, files, files0, truncated, attrs, index, filename,
                    estimators, opened, records, calls, reached, helper, helperErr, pushed, layout >>

\* ------------------------------------- EstimatorHandler.compute_estimators
\* First pass of the loop over the estimators:
\*   estimator_slice = self.estimators[k].slice
\*   self.local_estimates[estimator_slice] = e.compute_estimators(qmc, ...)
\* The right-hand side is evaluated before the target.
LocalLoopRefs == << Self("estimators"), Global("qmc"), Self("local_estimates") >>

\* comm.Reduce(self.local_estimates, self.global_estimates, op=MPI.SUM)
\* The arguments are evaluated before the call is made.
ReduceRefs == << Self("local_estimates"), Self("global_estimates"), Global("MPI") >>

ComputeEstimators(w) ==
    /\ pc[w] = "alive"
    /\ calls[w] < MaxCalls
    /\ LET e1 == IF estimators[w] # << >> THEN EvalRefs(LocalLoopRefs, attrs[w])
                                          ELSE NoError
           e2 == EvalRefs(ReduceRefs, attrs[w])
       IN  IF e1 # NoError
           THEN /\ err' = [err EXCEPT ![w] = e1]
                /\ pc' = [pc EXCEPT ![w] = "raised"]
                /\ calls' = [calls EXCEPT ![w] = @ + 1]
                /\ UNCHANGED reached
           ELSE IF e2 # NoError
           THEN \* the statement is reached; building its arguments raises
                /\ err' = [err EXCEPT ![w] = e2]
                /\ pc' = [pc EXCEPT ![w] = "raised"]
                /\ calls' = [calls EXCEPT ![w] = @ + 1]
                /\ reached' = [reached EXCEPT ![w] = @ + 1]
           ELSE \* the call is made: the worker waits in the collective
                /\ pc' = [pc EXCEPT ![w] = "reducing"]
                /\ reached' = [reached EXCEPT ![w] = @ + 1]
                /\ UNCHANGED << err, calls >>
    /\ UNCHANGED << dvars, evars, options, files, files0, truncated, attrs, index, filename,
                    estimators, hasOutput, opened, records, setups, helper, helperErr, pushed, layout >>

\* ---------------------------------------------------------- EstimatorHelper
\* EstimatorHelper is introduced with "def": it is a function of one argument
\* whose body defines three local functions and returns nothing.  The
\* annotation EstimatorBase of push is not bound in the module; an interpreter
\* that evaluates annotations when "def push" runs raises NameError there,
\* one that defers them lets the call return None.  The helper does not
\* depend on the communicator: one caller is modelled.
ObservableNames == { "energy", "foo" }

HelperCallOutcomes ==
    { IF "EstimatorBase" \in ModuleGlobals THEN "None" ELSE "NameError", "None" }

HelperUnchanged ==
    UNCHANGED << dvars, evars, options, files, files0, truncated, pc, err, attrs, index,
                 filename, estimators, hasOutput, opened, records, setups, calls,
                 reached >>

CallEstimatorHelper ==
    /\ helper = "unset"
    /\ \E out \in HelperCallOutcomes :
        IF out = "None"
        THEN /\ helper' = "None"
             /\ UNCHANGED helperErr
        ELSE /\ helper' = "raised"
             /\ helperErr' = NameError("EstimatorBase")
    /\ UNCHANGED << pushed, layout >>
    /\ HelperUnchanged

\* The attributes of what EstimatorHelper(...) returned: None has neither
\* push nor offset.
HelperAttrs(h) == { }

\* h.push(name, estimator) on the value the call returned
HelperPush(name) ==
    /\ helper = "None"
    /\ pushed' = pushed \cup { name }
    /\ LET e == EvalRefs(<< Self("push") >>, HelperAttrs(helper))
       IN  /\ helperErr' = e
           /\ helper' = IF e = NoError THEN helper ELSE "raised"
    /\ UNCHANGED layout
    /\ HelperUnchanged

\* h.offset on the value the call returned
HelperOffset(name) ==
    /\ helper = "None"
    /\ LET e == EvalRefs(<< Self("offset") >>, HelperAttrs(helper))
       IN  /\ helperErr' = e
           /\ helper' = IF e = NoError THEN helper ELSE "raised"
    /\ UNCHANGED << pushed, layout >>
    /\ HelperUnchanged

Init ==
    /\ options \in OptionsSet
    /\ files \in SUBSET CandidateFiles(options)
    /\ files0 = files
    /\ truncated = { }
    /\ pc = [w \in Ranks |-> "start"]
    /\ err = [w \in Ranks |-> NoError]
    /\ attrs = [w \in Ranks |-> { }]
    /\ index = [w \in Ranks |-> 0]
    /\ filename = [w \in Ranks |-> NoneName]
    /\ estimators = [w \in Ranks |-> << >>]
    /\ hasOutput = [w \in Ranks |-> FALSE]
    /\ opened = [w \in Ranks |-> { }]
    /\ records = << >>
    /\ setups = [w \in Ranks |-> FALSE]
    /\ calls = [w \in Ranks |-> 0]
    /\ reached = [w \in Ranks |-> 0]
    /\ helper = "unset"
    /\ helperErr = NoError
    /\ pushed = { }
    /\ layout = << >>
    /\ DriverParked
    /\ EnergyParked

Next ==
    \/ \E w \in Ranks :
        \/ Construct(w)
        \/ IncrementFileNumber(w)
        \/ SetupOutput(w)
        \/ ComputeEstimators(w)
    \/ CallEstimatorHelper
    \/ \E name \in ObservableNames : HelperPush(name)
    \/ \E name \in ObservableNames : HelperOffset(name)

Spec == Init /\ [][Next]_vars

\* ====================================================================
\* Properties of the handler, checked under Spec
\* ====================================================================
Coordinator == 0

\* The first name of a sequence of observables that is no registry key.
RECURSIVE FirstUnknown(_)
FirstUnknown(obs) ==
    IF obs = << >> THEN ""
    ELSE IF Head(obs) \notin PredefinedEstimatorKeys THEN Head(obs)
    ELSE FirstUnknown(Tail(obs))

\* A worker whose __init__ got as far as the loop over the observables.
RanObservablesLoop(w) == attrs[w] # { }

\* C1: constructing the handler with an observable that is not predefined
\* fails during construction, on every worker, with the error
\* "unknown observable: <name>"; with known names only, no such error.
C1_UnknownObservableNamed ==
    \A w \in Ranks :
        RanObservablesLoop(w) =>
            LET unknown == FirstUnknown(OptObservables(options)) IN
            IF unknown # ""
            THEN pc[w] = "raised" /\ err[w] = UnknownObservable(unknown)
            ELSE err[w].type # "RuntimeError"

\* C2: only the coordinating worker creates the output file, sets up the
\* output helper or appends a record; every other worker has filename None
\* and never creates a file or appends, whichever method it runs.
C2_OnlyCoordinatorWrites ==
    /\ \A w \in Ranks \ { Coordinator } :
          /\ opened[w] = { }
          /\ ~hasOutput[w]
          /\ filename[w] = NoneName
    /\ \A i \in DOMAIN records : records[i].by = Coordinator
    /\ files \ files0 \subseteq opened[Coordinator]

\* A worker other than the coordinator has run __init__, setup_output and
\* compute_estimators, and the coordinator has created its file.
C2_Witness ==
    \E w \in Ranks \ { Coordinator } :
        /\ RanObservablesLoop(w) /\ setups[w] /\ calls[w] >= 1
        /\ opened[Coordinator] # { }

\* The least index from start on whose file name is not among the existing.
LeastFreeIndex(basename, start, existing) ==
    CHOOSE i \in start .. (start + Cardinality(existing)) :
        /\ FileName(basename, i) \notin existing
        /\ \A j \in start .. (i - 1) : FileName(basename, j) \in existing

\* C3 as amended: with no explicit filename the coordinator's file is named
\* <basename>.<index>.h5.  When the caller passed overwrite=False, construction
\* truncates no file that existed, and for a basename without "." the search
\* ends, and the file created is the one with the least index from the given
\* one on that named no existing file.  When overwrite is absent or True the
\* file created is the one with the given index, existing or not.
C3_NoTruncationWhenOverwriteForbidden ==
    (~options.hasFilename /\ pc[Coordinator] # "start") =>
        LET base == OptBasename(options)
            first == OptIndex(options)
        IN
        /\ filename[Coordinator] = FileName(base, index[Coordinator])
        /\ options.overwrite = "False" =>
              /\ truncated = { }
              /\ opened[Coordinator] \cap files0 = { }
        /\ (options.overwrite = "False" /\ Len(base) = 1) =>
              /\ pc[Coordinator] # "hung"
              /\ err[Coordinator] # ValueError
              /\ opened[Coordinator] \subseteq
                    { FileName(base, LeastFreeIndex(base, first, files0)) }
              /\ err[Coordinator] # OSError => opened[Coordinator] # { }
        /\ OptOverwrite(options) =>
              /\ opened[Coordinator] \subseteq { FileName(base, first) }
              /\ truncated = opened[Coordinator] \cap files0

\* overwrite=False, the first name exists: the coordinator has created the
\* file of a later index and left the existing one alone.
C3_Witness ==
    /\ ~options.hasFilename /\ options.overwrite = "False"
    /\ FileName(OptBasename(options), OptIndex(options)) \in files0
    /\ opened[Coordinator] # { }
    /\ FileName(OptBasename(options), OptIndex(options)) \notin opened[Coordinator]
    /\ truncated = { }

\* C3 as stated: unless the caller explicitly permitted overwriting,
\* construction never truncates a file that already existed.
C3_NeverTruncatesUnlessPermitted ==
    (~options.hasFilename /\ options.overwrite # "True") => truncated = { }

\* C4: the record the coordinator writes for a block is the sum, over all
\* workers, of what they computed for that block and for no other block.
C4_RecordIsSumOverWorkers ==
    \A b \in 1 .. calls[Coordinator] :
        /\ b <= Len(records)
        /\ records[b].from = Ranks
        /\ records[b].blocks = { b }

\* C5: each compute_estimators call of the coordinator appends exactly one
\* record; after B calls the output holds B records.
C5_OneRecordPerBlock == Len(records) = calls[Coordinator]

\* C6: once creating the output file has failed on the coordinator, no other
\* worker goes on to compute estimators or to enter the reduction.
C6_AbortOnCreateFailure ==
    [][ err[Coordinator] = OSError =>
            \A w \in Ranks \ { Coordinator } :
                /\ calls'[w] = calls[w]
                /\ reached'[w] = reached[w]
                /\ pc'[w] # "reducing" ]_vars

\* C7: when every worker has reached the reduction of a block, every worker
\* gets past it: none of them ends there.
C7_AllReachedAllPass ==
    (\A w \in Ranks : reached[w] >= 1) =>
        (\A w \in Ranks : pc[w] # "raised" /\ err[w] = NoError)

\* C10: a name that was pushed has an offset in the layout, and looking it up
\* returns that offset.
C10_PushedNameHasOffset ==
    \A name \in pushed :
        /\ \E i \in DOMAIN layout : layout[i].name = name
        /\ helperErr = NoError

\* ====================================================================
\* The blocked driver loop
\*   Idle -> Propagating -> (Stabilizing)? -> (PopulationControlling)? ->
\*   (Estimating)? -> Accumulating -> (Writing)? -> Propagating ... Finished
\* run on every worker; the reduction in Accumulating is a blocking
\* collective, and the launcher calls run and then finalise.
\* ====================================================================
Min(a, b) == IF a < b THEN a ELSE b

\* The optional stages that follow a propagation step, in order.
StageOrder == << "Stabilizing", "PopulationControlling", "Estimating" >>

\* Whether a stage is due after the s-th step of a block.
Due(stage, s) ==
    CASE stage = "Stabilizing" -> s % StabiliseFreq = 0
      [] stage = "PopulationControlling" -> s % PopControlFreq = 0
      [] stage = "Estimating" -> s % EnergyEvalFreq = 0
      [] OTHER -> FALSE

\* A block closed one step early.
BlockDoneEarly(s) == s >= NSteps - 1

\* The block ends after the configured number of steps.
BlockDone(s) == s = NSteps

\* The run ends after the configured number of blocks.
RunDone(b) == b = NBlocks

\* The state that follows the stages up to position i after the s-th step.
RECURSIVE StageAfter(_, _)
StageAfter(i, s) ==
    IF i >= Len(StageOrder)
    THEN IF BlockDone(s) THEN "Accumulating" ELSE "Propagating"
    ELSE IF Due(StageOrder[i + 1], s) THEN StageOrder[i + 1]
    ELSE StageAfter(i + 1, s)

StagePosition(stage) == CHOOSE i \in DOMAIN StageOrder : StageOrder[i] = stage

\* A worker has reached the reduction of block b (counted from 0).
AtReduction(v, b) ==
    \/ block[v] > b
    \/ block[v] = b /\ dstate[v] \in { "Accumulating", "Writing" }

\* The state after a block is closed.
AfterBlock(b) == IF RunDone(b) THEN "Finished" ELSE "Propagating"

\* Who writes the reduced result.
Writes(rank) == rank = 0

DriverUnchanged == UNCHANGED << hvars, evars >>

StartRun(w) ==
    /\ dstate[w] = "Idle"
    /\ dstate' = [dstate EXCEPT ![w] = AfterBlock(0)]
    /\ UNCHANGED << block, step, props, written, finalised >>
    /\ DriverUnchanged

Propagate(w) ==
    /\ dstate[w] = "Propagating"
    /\ step' = [step EXCEPT ![w] = @ + 1]
    /\ props' = [props EXCEPT ![w] = @ + 1]
    /\ dstate' = [dstate EXCEPT ![w] = StageAfter(0, step[w] + 1)]
    /\ UNCHANGED << block, written, finalised >>
    /\ DriverUnchanged

\* Stabilizing, PopulationControlling and Estimating act on the worker's own
\* walkers and hand over to the next stage.
OptionalStage(w) ==
    /\ dstate[w] \in { StageOrder[i] : i \in DOMAIN StageOrder }
    /\ dstate' = [dstate EXCEPT ![w] = StageAfter(StagePosition(dstate[w]), step[w])]
    /\ UNCHANGED << block, step, props, written, finalised >>
    /\ DriverUnchanged

\* The sum-reduction returns on a worker once every worker has reached it.
PassReduction(w) ==
    /\ dstate[w] = "Accumulating"
    /\ \A v \in Ranks : AtReduction(v, block[w])
    /\ IF Writes(w)
       THEN /\ dstate' = [dstate EXCEPT ![w] = "Writing"]
            /\ UNCHANGED << block, step >>
       ELSE /\ block' = [block EXCEPT ![w] = @ + 1]
            /\ step' = [step EXCEPT ![w] = 0]
            /\ dstate' = [dstate EXCEPT ![w] = AfterBlock(block[w] + 1)]
    /\ UNCHANGED << props, written, finalised >>
    /\ DriverUnchanged

WriteBlock(w) ==
    /\ dstate[w] = "Writing"
    /\ written' = written + 1
    /\ block' = [block EXCEPT ![w] = @ + 1]
    /\ step' = [step EXCEPT ![w] = 0]
    /\ dstate' = [dstate EXCEPT ![w] = AfterBlock(block[w] + 1)]
    /\ UNCHANGED << props, finalised >>
    /\ DriverUnchanged

\* afqmc.run(comm=comm, verbose=True) has returned; afqmc.finalise(verbose=True)
Finalise(w) ==
    /\ dstate[w] = "Finished"
    /\ ~finalised[w]
    /\ finalised' = [finalised EXCEPT ![w] = TRUE]
    /\ UNCHANGED << dstate, block, step, props, written >>
    /\ DriverUnchanged

DriverStep(w) ==
    \/ StartRun(w)
    \/ Propagate(w)
    \/ OptionalStage(w)
    \/ PassReduction(w)
    \/ WriteBlock(w)
    \/ Finalise(w)

DriverInit == HandlerParked /\ DriverParked /\ EnergyParked

DriverNext == \E w \in Ranks : DriverStep(w)

DriverSpec == DriverInit /\ [][DriverNext]_vars

\* Every worker keeps running its own loop.
FairDriverSpec == DriverSpec /\ \A w \in Ranks : WF_vars(DriverStep(w))

\* The transitions of the driver's state machine.
AllowedTransitions ==
    { << "Idle", "Propagating" >>,
      << "Propagating", "Propagating" >>,
      << "Propagating", "Stabilizing" >>,
      << "Propagating", "PopulationControlling" >>,
      << "Propagating", "Estimating" >>,
      << "Propagating", "Accumulating" >>,
      << "Stabilizing", "PopulationControlling" >>,
      << "Stabilizing", "Estimating" >>,
      << "Stabilizing", "Propagating" >>,
      << "Stabilizing", "Accumulating" >>,
      << "PopulationControlling", "Estimating" >>,
      << "PopulationControlling", "Propagating" >>,
      << "PopulationControlling", "Accumulating" >>,
      << "Estimating", "Propagating" >>,
      << "Estimating", "Accumulating" >>,
      << "Accumulating", "Writing" >>,
      << "Accumulating", "Propagating" >>,
      << "Accumulating", "Finished" >>,
      << "Writing", "Propagating" >>,
      << "Writing", "Finished" >>,
      << "Finished", "Finished" >> }

C8_Counts ==
    /\ \A w \in Ranks :
          /\ props[w] = block[w] * NSteps + step[w]
          /\ dstate[w] \in { "Accumulating", "Writing" } => step[w] = NSteps
          /\ dstate[w] = "Finished" => block[w] = NBlocks /\ props[w] = NBlocks * NSteps
          /\ dstate[w] = "Idle" => props[w] = 0 /\ block[w] = 0
          /\ finalised[w] => dstate[w] = "Finished"
    /\ written = block[0]

C8_Finished == \A w \in Ranks : dstate[w] = "Finished"

CholValues == { -1, 2 }
GreenValues == { 1, -2 }

\* The contribution of Cholesky vector l to the energy of walker i: the
\* square of the vector's contraction with the walker's Green's function.
Term(i, l) == (chol[l] * green[i]) * (chol[l] * green[i])

\* Sum of the terms of the vectors lo+1 .. hi.
RECURSIVE RangeSum(_, _, _)
RangeSum(i, lo, hi) == IF lo >= hi THEN 0 ELSE RangeSum(i, lo, hi - 1) + Term(i, hi)

\* Direct evaluation: one contraction over the whole rank dimension.
EnergyDirect(i) == RangeSum(i, 0, NChol)

\* Blocks of equal length that drop the remainder of the division.
ChunkLoDropsRemainder(r, k) == r * (NChol \div k)

\* chunk: the rank dimension is split into contiguous blocks, one per member
\* of the group; member r (from 0) holds the vectors ChunkLo(r)+1 .. ChunkLo(r+1).
ChunkLo(r, k) == r * (NChol \div k) + Min(r, NChol % k)

\* One member's share, taken in passes of at most len vectors.
RECURSIVE PassSum(_, _, _, _)
PassSum(i, lo, hi, len) ==
    IF lo >= hi THEN 0
    ELSE RangeSum(i, lo, Min(lo + len, hi)) + PassSum(i, Min(lo + len, hi), hi, len)

\* Chunked evaluation: the partial sums of the members' shares, accumulated.
RECURSIVE MemberSum(_, _, _, _)
MemberSum(i, r, k, len) ==
    IF r >= k THEN 0
    ELSE PassSum(i, ChunkLo(r, k), ChunkLo(r + 1, k), len) + MemberSum(i, r + 1, k, len)

EnergyChunked(i, k, len) == MemberSum(i, 0, k, len)

\* max_mem=1e-6 leaves room for a single vector per pass.
LowMemPassLen == 1

EnergyUnchanged == UNCHANGED << hvars, dvars >>

\* energies_einsum = local_energy_single_det_batch_gpu(system, ham, walker_batch, trial)
EvalEinsum ==
    /\ "einsum" \notin evaluated
    /\ evaluated' = evaluated \cup { "einsum" }
    /\ eEinsum' = [i \in Walkers |-> EnergyDirect(i)]
    /\ UNCHANGED << chol, green, nmembers, passLen, eChunked, eLowMem >>
    /\ EnergyUnchanged

\* energies_chunked = local_energy_single_det_uhf_batch_chunked_gpu(...)
EvalChunked ==
    /\ "chunked" \notin evaluated
    /\ evaluated' = evaluated \cup { "chunked" }
    /\ eChunked' = [i \in Walkers |-> EnergyChunked(i, nmembers, passLen)]
    /\ UNCHANGED << chol, green, nmembers, passLen, eEinsum, eLowMem >>
    /\ EnergyUnchanged

\* energies_chunked_low_mem = ...chunked_gpu(..., max_mem=1e-6)
EvalChunkedLowMem ==
    /\ "low_mem" \notin evaluated
    /\ evaluated' = evaluated \cup { "low_mem" }
    /\ eLowMem' = [i \in Walkers |-> EnergyChunked(i, nmembers, LowMemPassLen)]
    /\ UNCHANGED << chol, green, nmembers, passLen, eEinsum, eChunked >>
    /\ EnergyUnchanged

EnergyInit ==
    /\ HandlerParked
    /\ DriverParked
    /\ chol \in [1 .. NChol -> CholValues]
    /\ green \in [Walkers -> GreenValues]
    /\ nmembers \in 1 .. MaxMembers
    /\ passLen \in 1 .. MaxPassLen
    /\ evaluated = { }
    /\ eEinsum = [i \in Walkers |-> 0]
    /\ eChunked = [i \in Walkers |-> 0]
    /\ eLowMem = [i \in Walkers |-> 0]

EnergyNext == EvalEinsum \/ EvalChunked \/ EvalChunkedLowMem

EnergySpec == EnergyInit /\ [][EnergyNext]_vars

\* C9: the per-walker energy accumulated over the rank chunks of the group
\* equals the energy of the direct full contraction, and is the same for the
\* default and for the smallest working-memory budget.
C9_ChunkedEqualsDirect ==
    /\ { "einsum", "chunked" } \subseteq evaluated => eChunked = eEinsum
    /\ { "einsum", "low_mem" } \subseteq evaluated => eLowMem = eEinsum
    /\ { "chunked", "low_mem" } \subseteq evaluated => eLowMem = eChunked

\* All three evaluations have run on a group of several members whose shares
\* are uneven, the default budget taking more than one vector per pass.
C9_Witness ==
    /\ evaluated = { "einsum", "chunked", "low_mem" }
    /\ nmembers > 1 /\ NChol % nmembers # 0
    /\ passLen > LowMemPassLen
    /\ \E i, j \in Walkers : eEinsum[i] # eEinsum[j]
====
